---- MODULE Spec2Model ----
(***************************************************************************)
(* Model of steam_analysis.py, a Streamlit script that reads the SteamSpy  *)
(* top-100 list, fetches the details of every game, normalises both into   *)
(* one row per game, and renders tables, charts, a filter and a game       *)
(* detail section.  One behaviour of the model is one run of the script    *)
(* from a cold cache.                                                      *)
(*                                                                         *)
(* JSON values are records [t, v, s]: t is the Python type after           *)
(* res.json() ("absent" for a key the object does not hold), v the number  *)
(* (a float is kept in tenths: v = 37 is 3.7), s the string as a sequence  *)
(* of one-character strings.                                               *)
(***************************************************************************)
EXTENDS Integers, Sequences, FiniteSets, TLC

\* ------------------------------------------------------------ bounds
\* Most games in the top-games object.
MaxGames == 2
\* Longest owners string of the owners specification.
MaxOwnersLen == 4
\* Longest genre string of the genre specification.
MaxGenreLen == 3

\* ------------------------------------------------------------ values
Absent == [t |-> "absent", v |-> 0, s |-> <<>>]
Null == [t |-> "null", v |-> 0, s |-> <<>>]
IntV(n) == [t |-> "int", v |-> n, s |-> <<>>]
FloatV(tenths) == [t |-> "float", v |-> tenths, s |-> <<>>]
StrV(chars) == [t |-> "str", v |-> 0, s |-> chars]

\* The literal '알 수 없음' of lines 70 and 95, kept as one token: no input
\* string of the model holds this token.
Unknown == <<"unknown">>

Digits == {"0", "1", "2", "3", "4", "5", "6", "7", "8", "9"}

DigitVal(c) ==
  CASE c = "0" -> 0 [] c = "1" -> 1 [] c = "2" -> 2 [] c = "3" -> 3
    [] c = "4" -> 4 [] c = "5" -> 5 [] c = "6" -> 6 [] c = "7" -> 7
    [] c = "8" -> 8 [] c = "9" -> 9

\* All sequences over alphabet a of length at most n.
StringsUpTo(a, n) == UNION {[1..k -> a] : k \in 0..n}

\* ------------------------------------------------------------ Python
\* dict.get(key, default): the default stands in for an absent key only.
Get(field, default) == IF field.t = "absent" THEN default ELSE field

\* Truth value of an object: None, zero and the empty string are false.
Truthy(x) ==
  CASE x.t \in {"absent", "null"} -> FALSE
    [] x.t \in {"int", "float"} -> x.v # 0
    [] x.t = "str" -> x.s # <<>>

\* Value of a string of decimal digits.
RECURSIVE DigitsValue(_)
DigitsValue(ds) ==
  IF ds = <<>> THEN 0
  ELSE 10 * DigitsValue(SubSeq(ds, 1, Len(ds) - 1)) + DigitVal(ds[Len(ds)])

\* str.strip(): leading and trailing blanks removed.
RECURSIVE Strip(_)
Strip(s) ==
  IF s = <<>> THEN s
  ELSE IF Head(s) = " " THEN Strip(Tail(s))
  ELSE IF s[Len(s)] = " " THEN Strip(SubSeq(s, 1, Len(s) - 1))
  ELSE s

AllDigits(s) == s # <<>> /\ \A i \in 1..Len(s) : s[i] \in Digits

\* int(str): blanks around, an optional sign, then decimal digits; anything
\* else raises ValueError.
IntOfStr(s) ==
  LET b == Strip(s)
      signed == b # <<>> /\ Head(b) \in {"-", "+"}
      ds == IF signed THEN Tail(b) ELSE b
  IN  IF AllDigits(ds)
      THEN [ok |-> TRUE,
            v |-> IF signed /\ Head(b) = "-" THEN 0 - DigitsValue(ds)
                  ELSE DigitsValue(ds)]
      ELSE [ok |-> FALSE, v |-> 0]

\* int(float): truncation toward zero.
Trunc(tenths) ==
  IF tenths >= 0 THEN tenths \div 10 ELSE 0 - ((0 - tenths) \div 10)

\* int(x): ok = FALSE stands for the TypeError or ValueError it raises.
PyInt(x) ==
  CASE x.t = "int" -> [ok |-> TRUE, v |-> x.v]
    [] x.t = "float" -> [ok |-> TRUE, v |-> Trunc(x.v)]
    [] x.t = "str" -> IntOfStr(x.s)
    [] OTHER -> [ok |-> FALSE, v |-> 0]

\* try: int(x) / except: 0
IntOrZero(x) == IF PyInt(x).ok THEN PyInt(x).v ELSE 0

\* str.replace(',', '')
RemoveCommasKept(s) == s

RemoveCommas(s) == SelectSeq(s, LAMBDA c : c # ",")

\* re.findall(r"\d+", s): the maximal digit runs, left to right.
RECURSIVE Scan(_, _, _)
Scan(s, cur, acc) ==
  IF s = <<>> THEN (IF cur = <<>> THEN acc ELSE Append(acc, cur))
  ELSE IF Head(s) \in Digits THEN Scan(Tail(s), Append(cur, Head(s)), acc)
  ELSE Scan(Tail(s), <<>>, IF cur = <<>> THEN acc ELSE Append(acc, cur))

FindAllDigits(s) == Scan(s, <<>>, <<>>)

\* str.split(',')[0]: the part before the first comma.
BeforeCommaWhole(s) == s

RECURSIVE BeforeComma(_)
BeforeComma(s) ==
  IF s = <<>> \/ Head(s) = "," THEN <<>>
  ELSE <<Head(s)>> \o BeforeComma(Tail(s))

\* ------------------------------------------------------------ fetchers
EmptyDetails ==
  [genre |-> Absent, players_2weeks |-> Absent, average_2weeks |-> Absent,
   average_forever |-> Absent]

\* fetch_top_games: the parsed body of a 200 response, else {}.  The object
\* is kept as the sequence of its summaries in key order.
FetchTopStatusBlind(resp) == resp.body

fetch_top_games(resp) == IF resp.status = 200 THEN resp.body ELSE <<>>

\* fetch_game_details: the parsed body of a 200 response, else {}.
fetch_game_details(resp) ==
  IF resp.status = 200 THEN resp.body ELSE EmptyDetails

\* The key of the i-th game of the top-games object, a decimal string.
AppId(i) == <<CHOOSE c \in Digits : DigitVal(c) = i>>

\* ------------------------------------------------------------ normalizer
Ok(x) == [exc |-> "none", v |-> x]
Raise(e) == [exc |-> e, v |-> 0]

\* Line 70: the part of the genre before its first comma when the field is
\* truthy, else the literal.  A truthy number has no split().
Genre(details) ==
  IF Truthy(details.genre)
  THEN IF details.genre.t = "str"
       THEN Ok(BeforeComma(details.genre.s))
       ELSE Raise("AttributeError")
  ELSE Ok(Unknown)

\* Lines 72-80: owners from the digit runs of the comma-free owners string.
\* None and numbers have no replace().
Owners(summary) ==
  LET o == Get(summary.owners, StrV(<<>>))
  IN  IF o.t # "str" THEN Raise("AttributeError")
      ELSE LET nums == FindAllDigits(RemoveCommas(o.s))
           IN  IF Len(nums) >= 2
               THEN Ok((DigitsValue(nums[1]) + DigitsValue(nums[2])) \div 2)
               ELSE IF Len(nums) >= 1 THEN Ok(DigitsValue(nums[1]))
               ELSE Ok(0)

\* Lines 82-86.
Players(details) ==
  IntOrZero(Get(details.players_2weeks, Get(details.average_2weeks, IntV(0))))

\* Lines 88-92.
AvgTimeIntOnly(details) ==
  LET raw == Get(details.average_forever, IntV(0))
  IN  IF raw.t = "float" /\ raw.v % 10 # 0 THEN 0 ELSE IntOrZero(raw)

AvgTime(details) == IntOrZero(Get(details.average_forever, IntV(0)))

\* Lines 93-100: the row, or the first exception of the iteration.
MakeRow(appid, summary, details) ==
  LET g == Genre(details)
      o == Owners(summary)
      id == IntOfStr(appid)
  IN  IF g.exc # "none" THEN Raise(g.exc)
      ELSE IF o.exc # "none" THEN Raise(o.exc)
      ELSE IF ~id.ok THEN Raise("ValueError")
      ELSE Ok([id |-> id.v,
               name |-> Get(summary.name, StrV(Unknown)),
               genre |-> g.v,
               owners |-> o.v,
               players |-> Players(details),
               avg_time |-> AvgTime(details)])

\* ------------------------------------------------------------ tables
Range(f) == {f[i] : i \in DOMAIN f}

\* Largest element of a non-empty set of integers.
Max(S) == CHOOSE m \in S : \A x \in S : x <= m

\* Lines 157: the boolean mask keeps the rows in place.
FilterStrict(df, sel, t) ==
  SelectSeq(df, LAMBDA r : r.genre \in sel /\ r.avg_time > t)

Filter(df, sel, t) ==
  SelectSeq(df, LAMBDA r : r.genre \in sel /\ r.avg_time >= t)

\* Line 167: the rows of the table whose name equals the picked one.
Matching(df, picked) == SelectSeq(df, LAMBDA r : r.name = picked)

\* ------------------------------------------------------------ state
VARIABLES
  api_top,       \* the upstream answer to request=top100in2weeks
  api_details,   \* the upstream answers to request=appdetails, per game
  pc,            \* where the script is
  data,          \* line 58
  idx,           \* games normalised so far (line 67)
  detail_cache,  \* what fetch_game_details returned, per game (line 37)
  requests,      \* appdetails GET requests issued
  rows,          \* line 66
  errors,        \* st.error messages shown
  shown,         \* the sections rendered
  exc,           \* the exception that ended the run, or "none"
  sel_genres,    \* line 154
  min_time,      \* line 156
  filtered,      \* line 157
  sel,           \* line 166
  selected       \* line 167, as a sequence of at most one row

vars ==
  <<api_top, api_details, pc, data, idx, detail_cache, requests, rows,
    errors, shown, exc, sel_genres, min_time, filtered, sel, selected>>

Str1(c) == StrV(<<c>>)

\* ------------------------------------------------------------ inputs
Statuses == {200, 500}

\* A well-formed game, used where a specification varies one field only.
PlainSummary == [name |-> Str1("A"), owners |-> StrV(<<"1", " ", "4">>)]
PlainDetails ==
  [genre |-> StrV(<<"A", ",", "I">>), players_2weeks |-> IntV(3),
   average_2weeks |-> Absent, average_forever |-> IntV(2)]

MainSummaries ==
  {[name |-> n, owners |-> o] :
     n \in {Absent, Str1("A"), Str1("B")},
     o \in {StrV(<<"1", " ", "4">>), Null}}

MainDetailBodies ==
  {[genre |-> g, players_2weeks |-> Absent, average_2weeks |-> IntV(3),
    average_forever |-> a] :
     g \in {StrV(<<"A", ",", "I">>), Str1("I")}, a \in {IntV(1), IntV(2)}}

MainDetailResponses ==
  {[status |-> 200, body |-> b] : b \in MainDetailBodies}
    \cup {[status |-> 500, body |-> PlainDetails]}

OwnersAlphabet == {"0", "1", "2", ",", " "}
OwnersValues ==
  {Absent} \cup {StrV(s) : s \in StringsUpTo(OwnersAlphabet, MaxOwnersLen)}

GenreAlphabet == {"A", "I", ",", " "}
GenreValues ==
  {Absent, Null, IntV(0), IntV(5)}
    \cup {StrV(s) : s \in StringsUpTo(GenreAlphabet, MaxGenreLen)}

FieldValues ==
  {Absent, Null, IntV(0 - 1), IntV(0), IntV(7), FloatV(37), FloatV(0 - 37),
   FloatV(50), StrV(<<"1", "2">>), StrV(<<" ", "-", "4">>),
   StrV(<<"3", ".", "7">>), StrV(<<"N", "/", "A">>), StrV(<<>>)}

\* The state before the script runs, the upstream answers still to be given.
Start ==
  /\ pc = "start"
  /\ data = <<>>
  /\ idx = 0
  /\ detail_cache = <<>>
  /\ requests = 0
  /\ rows = <<>>
  /\ errors = 0
  /\ shown = {}
  /\ exc = "none"
  /\ sel_genres = {}
  /\ min_time = 0
  /\ filtered = <<>>
  /\ sel = Null
  /\ selected = <<>>

Init ==
  /\ Start
  /\ \E n \in 0..MaxGames :
       /\ api_top \in [status : Statuses, body : [1..n -> MainSummaries]]
       /\ api_details \in [1..n -> MainDetailResponses]

\* One game whose owners field takes every short string.
InitOwners ==
  /\ Start
  /\ api_top \in
       [status : Statuses,
        body : {<<[name |-> Str1("A"), owners |-> o]>> : o \in OwnersValues}]
  /\ api_details \in {<<[status |-> s, body |-> PlainDetails]>> : s \in Statuses}

\* One game whose genre field takes every short string and the other types.
InitGenre ==
  /\ Start
  /\ api_top \in [status : Statuses, body : {<<PlainSummary>>}]
  /\ api_details \in
       {<<[status |-> s, body |-> [PlainDetails EXCEPT !.genre = g]]>> :
          s \in Statuses, g \in GenreValues}

\* One game whose three numeric detail fields take every type.
InitFields ==
  /\ Start
  /\ api_top \in [status : Statuses, body : {<<PlainSummary>>}]
  /\ api_details \in
       {<<[status |-> 200,
           body |-> [genre |-> Str1("A"), players_2weeks |-> p,
                     average_2weeks |-> q, average_forever |-> a]]>> :
          p \in FieldValues, q \in FieldValues, a \in FieldValues}

\* ------------------------------------------------------------ the run
\* Lines 57-58.
FetchTop ==
  /\ pc = "start"
  /\ data' = fetch_top_games(api_top)
  /\ pc' = "guard"
  /\ UNCHANGED <<api_top, api_details, idx, detail_cache, requests, rows,
                 errors, shown, exc, sel_genres, min_time, filtered, sel,
                 selected>>

\* Lines 59-66: st.error and st.stop on an empty result, else the loop starts.
Guard ==
  /\ pc = "guard"
  /\ IF data = <<>>
     THEN /\ errors' = errors + 1
          /\ pc' = "stopped"
     ELSE /\ errors' = errors
          /\ pc' = "loop"
  /\ UNCHANGED <<api_top, api_details, data, idx, detail_cache, requests,
                 rows, shown, exc, sel_genres, min_time, filtered, sel,
                 selected>>

\* Lines 67-102: one iteration: the detail fetch, then the row or the
\* exception that ends the run.
LoopBody ==
  /\ pc = "loop"
  /\ idx < Len(data)
  /\ LET i == idx + 1
         details == fetch_game_details(api_details[i])
         r == MakeRow(AppId(i), data[i], details)
     IN  /\ requests' = requests + 1
         /\ detail_cache' = Append(detail_cache, details)
         /\ IF r.exc = "none"
            THEN /\ rows' = Append(rows, r.v)
                 /\ idx' = i
                 /\ UNCHANGED <<pc, exc>>
            ELSE /\ exc' = r.exc
                 /\ pc' = "crashed"
                 /\ UNCHANGED <<rows, idx>>
  /\ UNCHANGED <<api_top, api_details, data, errors, shown, sel_genres,
                 min_time, filtered, sel, selected>>

\* Lines 104-145: the table of the top games and the two bar charts.  What
\* they draw is read by nothing later and is not kept.
Overview ==
  /\ pc = "loop"
  /\ idx = Len(data)
  /\ shown' = shown \cup {"top_table", "metric_chart", "genre_chart"}
  /\ pc' = "filter"
  /\ UNCHANGED <<api_top, api_details, data, idx, detail_cache, requests,
                 rows, errors, exc, sel_genres, min_time, filtered, sel,
                 selected>>

\* Lines 150-160: the two widgets, the mask, the table and the download.
\* The multiselect returns any subset of the genres of the table; the slider
\* any integer from 0 to the largest playtime, and raises when its default 0
\* lies above that maximum.
FilterSection ==
  /\ pc = "filter"
  /\ LET genres == {r.genre : r \in Range(rows)}
         top == Max({r.avg_time : r \in Range(rows)})
     IN  IF top < 0
         THEN /\ exc' = "StreamlitAPIException"
              /\ pc' = "crashed"
              /\ UNCHANGED <<sel_genres, min_time, filtered, shown>>
         ELSE \E S \in SUBSET genres, t \in 0..top :
                /\ sel_genres' = S
                /\ min_time' = t
                /\ filtered' = Filter(rows, S, t)
                /\ shown' = shown \cup {"filtered_table", "download"}
                /\ pc' = "detail"
                /\ exc' = exc
  /\ UNCHANGED <<api_top, api_details, data, idx, detail_cache, requests,
                 rows, errors, sel, selected>>

\* Lines 165-171: the selectbox returns one of the names of the filtered
\* table, or None when there is none; iloc[0] of an empty selection raises.
DetailSection ==
  /\ pc = "detail"
  /\ LET names == {r.name : r \in Range(filtered)}
     IN  \E picked \in (IF names = {} THEN {Null} ELSE names) :
           /\ sel' = picked
           /\ IF Matching(filtered, picked) = <<>>
              THEN /\ exc' = "IndexError"
                   /\ pc' = "crashed"
                   /\ UNCHANGED <<selected, shown>>
              ELSE /\ selected' = <<Head(Matching(filtered, picked))>>
                   /\ shown' = shown \cup {"game_detail"}
                   /\ pc' = "done"
                   /\ exc' = exc
  /\ UNCHANGED <<api_top, api_details, data, idx, detail_cache, requests,
                 rows, errors, sel_genres, min_time, filtered>>

Next ==
  \/ FetchTop
  \/ Guard
  \/ LoopBody
  \/ Overview
  \/ FilterSection
  \/ DetailSection

Spec == Init /\ [][Next]_vars
SpecOwners == InitOwners /\ [][Next]_vars
SpecGenre == InitGenre /\ [][Next]_vars
SpecFields == InitFields /\ [][Next]_vars

\* ------------------------------------------------------------ claims
\* The digit runs of a string, said by position: a run is a maximal interval
\* of digits.
IsRun(s, i, j) ==
  /\ i <= j
  /\ \A k \in i..j : s[k] \in Digits
  /\ i = 1 \/ s[i - 1] \notin Digits
  /\ j = Len(s) \/ s[j + 1] \notin Digits

RunsOf(s) == {r \in (1..Len(s)) \X (1..Len(s)) : IsRun(s, r[1], r[2])}

\* The value of the n-th run from the left.
NthRunValue(s, n) ==
  LET r == CHOOSE q \in RunsOf(s) :
             Cardinality({p \in RunsOf(s) : p[1] < q[1]}) = n - 1
  IN  DigitsValue(SubSeq(s, r[1], r[2]))

\* Owners as the specification words it, from the digit runs of s.
OwnersByRuns(s) ==
  LET n == Cardinality(RunsOf(s))
  IN  IF n >= 2 THEN (NthRunValue(s, 1) + NthRunValue(s, 2)) \div 2
      ELSE IF n = 1 THEN NthRunValue(s, 1)
      ELSE 0

RECURSIVE CommaFree(_)
CommaFree(s) ==
  IF s = <<>> THEN <<>>
  ELSE IF Head(s) = "," THEN CommaFree(Tail(s))
  ELSE <<Head(s)>> \o CommaFree(Tail(s))

\* The owners string of a summary: the empty string stands in for a missing
\* field.
OwnersString(summary) ==
  IF summary.owners.t = "absent" THEN <<>> ELSE summary.owners.s

HasOwnersString(summary) == summary.owners.t \in {"absent", "str"}

\* A string int() accepts: blanks, an optional sign, decimal digits, blanks.
IsIntLiteral(s) ==
  \E a \in 1..Len(s), b \in 1..Len(s) :
    /\ a <= b
    /\ \A k \in 1..Len(s) : (k < a \/ k > b) => s[k] = " "
    /\ LET from == IF s[a] \in {"+", "-"} THEN a + 1 ELSE a
       IN  from <= b /\ \A k \in from..b : s[k] \in Digits

\* A value that "parses as an integer".
Parses(x) ==
  \/ x.t \in {"int", "float"}
  \/ x.t = "str" /\ IsIntLiteral(x.s)

Rows == 1..Len(rows)

\* C1: in every row, owners, recent players and average playtime are
\* integers greater than or equal to 0, whatever the upstream fields hold.
C1_FieldsNonNegative ==
  \A i \in Rows :
    /\ rows[i].owners \in Nat
    /\ rows[i].players \in Nat
    /\ rows[i].avg_time \in Nat

\* C2: once the loop is over a non-empty top-games result, there is exactly
\* one row per game, in input order; no malformed field ends the run or
\* drops a row.
C2_OneRowPerGame ==
  (data # <<>> /\ pc \notin {"start", "guard", "loop"}) =>
    /\ Len(rows) = Len(data)
    /\ \A i \in Rows : rows[i].id = i

\* C3: the genre of every row is a non-empty string, for every value of the
\* genre field.
C3_GenreNonEmpty == \A i \in Rows : rows[i].genre # <<>>

\* C4, as claimed: owners is decided by the digit runs of the owners string
\* itself: the floor of the mean of the first two, the only one, or 0.
C4_OwnersFromRawRuns ==
  \A i \in Rows :
    HasOwnersString(data[i]) =>
      rows[i].owners = OwnersByRuns(OwnersString(data[i]))

\* C4, amended: owners is decided by the digit runs of the owners string
\* with its commas removed: the floor of the mean of the first two, the only
\* one, or 0.
C4_OwnersFromCommaFreeRuns ==
  \A i \in Rows :
    HasOwnersString(data[i]) =>
      rows[i].owners = OwnersByRuns(CommaFree(OwnersString(data[i])))

\* An owners string whose comma joins two digit runs into one, normalised.
C4_Witness ==
  /\ rows # <<>>
  /\ data[1].owners = StrV(<<"1", ",", "0", "2">>)
  /\ rows[1].owners = 102

\* C5: recent players is the integer of players_2weeks when that parses,
\* otherwise the integer of average_2weeks when that parses, and 0 only when
\* neither parses.
C5_PlayersFallback ==
  \A i \in Rows :
    LET d == detail_cache[i]
    IN  rows[i].players =
          IF Parses(d.players_2weeks) THEN PyInt(d.players_2weeks).v
          ELSE IF Parses(d.average_2weeks) THEN PyInt(d.average_2weeks).v
          ELSE 0

\* C6, as claimed: average playtime is the average_forever field when it is
\* an integer, and 0 when the field is absent, null, a non-numeric string or
\* a fractional number.
C6_NonIntegerIsZero ==
  \A i \in Rows :
    LET a == detail_cache[i].average_forever
    IN  /\ a.t = "int" => rows[i].avg_time = a.v
        /\ a.t \in {"absent", "null"} => rows[i].avg_time = 0
        /\ (a.t = "str" /\ ~IsIntLiteral(a.s)) => rows[i].avg_time = 0
        /\ (a.t = "float" /\ a.v % 10 # 0) => rows[i].avg_time = 0

\* C6, amended: average playtime is the average_forever field when it is an
\* integer, the field truncated toward zero when it is a fractional number,
\* and 0 when the field is absent, null or a string that is no integer
\* literal.
C6_FractionTruncates ==
  \A i \in Rows :
    LET a == detail_cache[i].average_forever
        m == rows[i].avg_time
    IN  /\ a.t = "int" => m = a.v
        /\ a.t \in {"absent", "null"} => m = 0
        /\ (a.t = "str" /\ ~IsIntLiteral(a.s)) => m = 0
        /\ (a.t = "float" /\ a.v >= 0) => (10 * m <= a.v /\ a.v < 10 * m + 10)
        /\ (a.t = "float" /\ a.v < 0) => (10 * m - 10 < a.v /\ a.v <= 10 * m)

\* A fractional playtime, normalised.
C6_Witness ==
  /\ rows # <<>>
  /\ detail_cache[1].average_forever = FloatV(37)
  /\ rows[1].avg_time = 3

\* C7: the genre of a row is the part of the genre field before its first
\* comma (all of it when it holds none) when the field is present, and the
\* literal 'unknown' string when the field is absent or empty.
C7_GenreBeforeFirstComma ==
  \A i \in Rows :
    LET g == detail_cache[i].genre
    IN  /\ (g.t = "absent" \/ (g.t = "str" /\ g.s = <<>>)) =>
             rows[i].genre = Unknown
        /\ (g.t = "str" /\ g.s # <<>>) =>
             \E k \in 0..Len(g.s) :
               /\ rows[i].genre = SubSeq(g.s, 1, k)
               /\ \A j \in 1..k : g.s[j] # ","
               /\ k = Len(g.s) \/ g.s[k + 1] = ","

\* The genre "A,I", normalised to "A".
C7_Witness ==
  /\ rows # <<>>
  /\ detail_cache[1].genre = StrV(<<"A", ",", "I">>)
  /\ rows[1].genre = <<"A">>

\* The positions of the table that satisfy both predicates of the filter.
Kept ==
  {i \in Rows : rows[i].genre \in sel_genres /\ rows[i].avg_time >= min_time}

\* C8: the filtered table holds exactly the rows whose genre is selected and
\* whose average playtime is at least the threshold, each as often and in
\* the same order as in the full table.
C8_FilterExact ==
  "filtered_table" \in shown =>
    /\ Len(filtered) = Cardinality(Kept)
    /\ \A i \in Kept :
         filtered[Cardinality({k \in Kept : k <= i})] = rows[i]

\* A filtered table that keeps a row at the threshold and drops a row of a
\* selected genre below it.
C8_Witness ==
  /\ "filtered_table" \in shown
  /\ min_time > 0
  /\ \E i \in Kept : rows[i].avg_time = min_time
  /\ \E i \in Rows \ Kept : rows[i].genre \in sel_genres

EmptyTopFetch == api_top.status # 200 \/ api_top.body = <<>>

\* C9: when the top-games fetch yields empty data, the run shows exactly one
\* error message and stops: no detail request, no row, no section, no
\* exception.
C9_EmptyFetchStops ==
  EmptyTopFetch =>
    /\ pc \in {"start", "guard", "stopped"}
    /\ pc = "stopped" => (errors = 1 /\ ~ENABLED Next)
    /\ pc # "stopped" => errors = 0
    /\ requests = 0
    /\ rows = <<>>
    /\ shown = {}
    /\ exc = "none"

\* A run stopped by a non-200 answer that carried a body.
C9_Witness ==
  /\ pc = "stopped"
  /\ api_top.status = 500
  /\ api_top.body # <<>>
  /\ errors = 1

\* C10: a run that reaches the game detail section displays one row of the
\* filtered table whose name is the picked one, and never indexes into an
\* empty table.
C10_DetailShowsPickedRow ==
  ("filtered_table" \in shown /\ pc # "detail") =>
    /\ pc = "done"
    /\ Len(selected) = 1
    /\ \E j \in 1..Len(filtered) : filtered[j] = selected[1]
    /\ selected[1].name = sel
====
